---- MODULE Spec2Model ----
(***************************************************************************)
(* A model of chzzk-vod-dl (src/main.py): the segment fetcher with its     *)
(* retry loop and consecutive-failure counter, the manifest writer, the    *)
(* muxer invocation and the cleanup of the working directory.              *)
(*                                                                         *)
(* Strings are sequences of one-character strings, so that formatting,     *)
(* substitution, joining and base-name extraction are computed character   *)
(* by character, as the Python code computes them.                         *)
(***************************************************************************)
EXTENDS Integers, Sequences, FiniteSets, TLC

VARIABLES
    pc,               \* position of the single thread of control
    base_url,         \* main.py:89, the URL read from the prompt
    retries,          \* main.py:9, parameter of download_ts_segments
    backoff,          \* main.py:9, parameter of download_ts_segments
    segment_number,   \* main.py:15
    failed_attempts,  \* main.py:16
    ts_files,         \* main.py:17, the list download_ts_segments returns
    url,              \* main.py:24
    success,          \* main.py:25
    attempt,          \* main.py:27, the loop variable of the retry loop
    sleep_log,        \* the durations passed to time.sleep (main.py:50) for this segment
    dir,              \* the names of the entries of temp_folder
    manifest,         \* the content of temp_folder/file_list.txt
    steps,            \* the components main has called so far, in order
    mux_result,       \* what the external muxer did (os.system, main.py:77)
    output_exists,    \* whether the combined output file exists
    console,          \* the last line printed
    downloaded,       \* the segment indices one of whose attempts succeeded
    exhausted,        \* the segment indices whose attempts all failed
    requested,        \* the segment indices a URL was built for (main.py:24), in order
    tries,            \* the HTTP requests made for the current index (main.py:30)
    failed_tries,     \* for each exhausted index, the HTTP requests made for it
    last_outcome,     \* what the latest HTTP attempt did (main.py:30-46)
    raw_filename,     \* main.py:5, the argument of sanitize_filename
    sanitized_filename \* main.py:7, what sanitize_filename returns

vars == <<pc, base_url, retries, backoff, segment_number, failed_attempts,
          ts_files, url, success, attempt, sleep_log, dir, manifest, steps,
          mux_result, output_exists, console, downloaded, exhausted,
          requested, tries, failed_tries, last_outcome,
          raw_filename, sanitized_filename>>

----------------------------------------------------------------------------
(* Bounds of the model *)

\* The host answers 200 only for segment indices below MaxSegments.
MaxSegments == 5

----------------------------------------------------------------------------
(* Program constants *)

\* main.py:55, the consecutive-failure threshold
MaxConsecutiveFailures == 5

\* main.py:22, the width of the zero-padded segment number
SegmentWidth == 6

\* main.py:97, temp_folder = "temp_files"
temp_folder == <<"t","e","m","p","_","f","i","l","e","s">>

\* main.py:66, the manifest's file name
list_file_name == <<"f","i","l","e","_","l","i","s","t",".","t","x","t">>

\* main.py:83, the extension cleanup looks for
ts_extension == <<".","t","s">>

\* main.py:24, the substring of the base URL that is replaced
segment_placeholder == <<"-","0","0","0","0","0","0",".","t","s">>

----------------------------------------------------------------------------
(* Strings *)

Digits == <<"0","1","2","3","4","5","6","7","8","9">>

AsciiLetters ==
    {"a","b","c","d","e","f","g","h","i","j","k","l","m",
     "n","o","p","q","r","s","t","u","v","w","x","y","z",
     "A","B","C","D","E","F","G","H","I","J","K","L","M",
     "N","O","P","Q","R","S","T","U","V","W","X","Y","Z"}

AsciiDigits == {Digits[i] : i \in 1..10}

\* Characters outside ASCII for which str.isalnum() is true, each written as
\* its code point: e with acute, sharp s, a Hangul syllable, an Arabic-Indic digit.
UnicodeAlnum == {"U+00E9", "U+00DF", "U+D55C", "U+0663"}

AlnumChars == AsciiLetters \cup AsciiDigits \cup UnicodeAlnum

\* str.isalnum() of one character
isalnum(c) == c \in AlnumChars

\* The whitespace str.strip() removes.
Whitespace == {" ", "\t", "\n", "\r"}

RECURSIVE lstrip(_)
lstrip(s) ==
    IF s # <<>> /\ Head(s) \in Whitespace THEN lstrip(Tail(s)) ELSE s

RECURSIVE rstrip(_)
rstrip(s) ==
    IF s # <<>> /\ s[Len(s)] \in Whitespace
    THEN rstrip(SubSeq(s, 1, Len(s) - 1))
    ELSE s

\* str.strip()
strip(s) == rstrip(lstrip(s))

IsSanitizedKept(c) == isalnum(c) \/ c \in {" ", ".", "_", "-"}

\* sanitize_filename without the final strip().
sanitize_filename_unstripped(filename) == SelectSeq(filename, IsSanitizedKept)

\* main.py:5-7
sanitize_filename(filename) == strip(SelectSeq(filename, IsSanitizedKept))

RECURSIVE Decimal(_)
Decimal(n) ==
    IF n < 10 THEN <<Digits[n + 1]>>
    ELSE Decimal(n \div 10) \o <<Digits[(n % 10) + 1]>>

RECURSIVE ZeroPad(_, _)
ZeroPad(s, width) == IF Len(s) >= width THEN s ELSE ZeroPad(<<"0">> \o s, width)

\* main.py:22, f"{segment_number:06d}" for segment_number >= 0
segment_str(n) == ZeroPad(Decimal(n), SegmentWidth)

StartsWith(s, p) == Len(s) >= Len(p) /\ SubSeq(s, 1, Len(p)) = p

\* str.endswith
endswith(s, suffix) ==
    Len(s) >= Len(suffix) /\ SubSeq(s, Len(s) - Len(suffix) + 1, Len(s)) = suffix

\* str.replace(old, new) for a non-empty old: every occurrence, left to right
RECURSIVE replace(_, _, _)
replace(s, old, new) ==
    IF s = <<>> THEN <<>>
    ELSE IF StartsWith(s, old)
         THEN new \o replace(SubSeq(s, Len(old) + 1, Len(s)), old, new)
         ELSE <<Head(s)>> \o replace(Tail(s), old, new)

\* main.py:24
segment_url(base, n) ==
    replace(base, segment_placeholder, <<"-">> \o segment_str(n) \o ts_extension)

\* os.path.join(a, b) on POSIX
os_path_join(a, b) ==
    IF b # <<>> /\ Head(b) = "/" THEN b
    ELSE IF a = <<>> \/ a[Len(a)] = "/" THEN a \o b
    ELSE a \o <<"/">> \o b

\* os.path.basename(p) on POSIX: what follows the last "/"
os_path_basename(p) ==
    LET slashes == {i \in 1..Len(p) : p[i] = "/"}
    IN  IF slashes = {} THEN p
        ELSE SubSeq(p, (CHOOSE i \in slashes : \A j \in slashes : j <= i) + 1, Len(p))

\* main.py:33-34, the path a downloaded segment is saved under
segment_file_name(n) == sanitize_filename(segment_str(n) \o ts_extension)
segment_file_path(folder, n) == os_path_join(folder, segment_file_name(n))

\* A manifest writer that names each file by its full path.
manifest_line_full_path(ts_file) ==
    <<"f","i","l","e"," ","'">> \o ts_file \o <<"'","\n">>

\* main.py:70, one line of the manifest
manifest_line(ts_file) ==
    <<"f","i","l","e"," ","'">> \o os_path_basename(ts_file) \o <<"'","\n">>

\* main.py:67-70, the content written to the manifest
RECURSIVE manifest_text(_)
manifest_text(files) ==
    IF files = <<>> THEN <<>>
    ELSE manifest_line(Head(files)) \o manifest_text(Tail(files))

----------------------------------------------------------------------------
(* The inputs of a run *)

\* main.py:9, the default of the parameter retries
DefaultRetries == 3

\* main.py:9, the default of the parameter backoff
DefaultBackoff == 2

\* main.py:89, base URLs typed at the prompt: one bare, one with a query string
BaseUrls ==
    { <<"h","/","v","-","0","0","0","0","0","0",".","t","s">>,
      <<"h","/","v","-","0","0","0","0","0","0",".","t","s","?","k","=","1">> }

\* Entries temp_folder may hold before the run (os.makedirs(..., exist_ok=True),
\* main.py:14): a file that is no segment, and a .ts file of an earlier run.
PreExisting ==
    { <<"n","o","t","e","s",".","t","x","t">>,
      <<"i","n","t","r","o",".","t","s">> }

\* What one HTTP attempt (main.py:28-46) can do:
\*   ok            status 200, body streamed to the file        (main.py:31-42)
\*   status        a status other than 200                      (main.py:43-44)
\*   error         requests.get raises RequestException         (main.py:30, 45-46)
\*   stream_error  status 200, the file is opened, then iter_content raises
\*                 RequestException                             (main.py:35-37, 45-46)
AttemptOutcomes == {"ok", "status", "error", "stream_error"}

\* The host has no segment at or beyond MaxSegments: such a request gets no 200.
PossibleOutcomes(n) ==
    IF n < MaxSegments THEN AttemptOutcomes ELSE {"status", "error"}

\* What the external command of main.py:77 can do; os.system returns in each case.
MuxOutcomes == {"ok", "failed", "missing"}

----------------------------------------------------------------------------
(* The state machine *)

\* The state when main.py:102 is reached: the prompts are answered.
Init ==
    /\ pc = "main"
    /\ base_url \in BaseUrls
    /\ retries \in 1..DefaultRetries
    /\ backoff \in {DefaultBackoff, DefaultBackoff + 1}
    /\ segment_number = 0
    /\ failed_attempts = 0
    /\ ts_files = <<>>
    /\ url = <<>>
    /\ success = FALSE
    /\ attempt = 0
    /\ sleep_log = <<>>
    /\ dir \in {{}, PreExisting}
    /\ manifest = <<>>
    /\ steps = <<>>
    /\ mux_result = "none"
    /\ output_exists = FALSE
    /\ console = "prompt"
    /\ downloaded = {}
    /\ exhausted = {}
    /\ requested = <<>>
    /\ tries = 0
    /\ failed_tries = [i \in {} |-> 0]
    /\ last_outcome = "none"
    /\ raw_filename = <<>>
    /\ sanitized_filename = <<>>

\* main.py:102 and 14-19: the call of download_ts_segments up to the loop
StartDownload ==
    /\ pc = "main"
    /\ segment_number' = 0
    /\ failed_attempts' = 0
    /\ ts_files' = <<>>
    /\ steps' = Append(steps, "fetch")
    /\ console' = "Starting download..."
    /\ pc' = "segment"
    /\ UNCHANGED <<raw_filename, sanitized_filename,
                   base_url, retries, backoff, url, success, attempt, sleep_log,
                   dir, manifest, mux_result, output_exists,
                   downloaded, exhausted,
                   requested, tries, failed_tries, last_outcome>>

\* main.py:21-27: the top of the while loop, up to the first retry iteration
BeginSegment ==
    /\ pc = "segment"
    /\ url' = segment_url(base_url, segment_number)
    /\ success' = FALSE
    /\ sleep_log' = <<>>
    /\ requested' = Append(requested, segment_number)
    /\ tries' = 0
    /\ IF retries > 0
       THEN attempt' = 0 /\ pc' = "attempt"
       ELSE attempt' = attempt /\ pc' = "after_retries"
    /\ UNCHANGED <<raw_filename, sanitized_filename,
                   base_url, retries, backoff, segment_number, failed_attempts,
                   ts_files, dir, manifest, steps, mux_result, output_exists,
                   console,
                   downloaded, exhausted,
                   failed_tries, last_outcome>>

\* A retry loop that sleeps after every failed attempt, the last one included.
RetrySleepEvery(log, att) == Append(log, backoff * (att + 1))

\* main.py:49-50: the duration slept after the failed attempt, none after the last
RetrySleep(log, att) ==
    IF att < retries - 1 THEN Append(log, backoff * (att + 1)) ELSE log

\* A fetcher that puts each new path at the front of the list.
RecordPathAtFront(files, path) == <<path>> \o files

\* main.py:38: the path of a saved segment is added to the list
RecordPath(files, path) == Append(files, path)

\* A fetcher that never resets the counter: it counts all failures.
KeepOnSuccess(failed) == failed

\* main.py:41: the consecutive-failure counter after a successful download
ResetOnSuccess(failed) == 0

\* main.py:31-42: an attempt that succeeds
AttemptSucceeds ==
    /\ pc = "attempt"
    /\ "ok" \in PossibleOutcomes(segment_number)
    /\ dir' = dir \cup {segment_file_name(segment_number)}
    /\ ts_files' = RecordPath(ts_files, segment_file_path(temp_folder, segment_number))
    /\ console' = "Downloaded"
    /\ success' = TRUE
    /\ failed_attempts' = ResetOnSuccess(failed_attempts)
    /\ downloaded' = downloaded \cup {segment_number}
    /\ tries' = tries + 1
    /\ last_outcome' = "ok"
    /\ pc' = "after_retries"
    /\ UNCHANGED <<raw_filename, sanitized_filename,
                   base_url, retries, backoff, segment_number, url, attempt,
                   sleep_log, manifest, steps, mux_result, output_exists,
                   exhausted,
                   requested, failed_tries>>

\* A retry loop that runs one iteration too many.
MoreAttemptsOneExtra(att) == att < retries

\* main.py:27: range(retries) has a value after att
MoreAttempts(att) == att + 1 < retries

\* main.py:28-50: an attempt that fails, with the retry logic that follows it
AttemptFails(outcome) ==
    /\ pc = "attempt"
    /\ outcome \in PossibleOutcomes(segment_number) \ {"ok"}
    /\ dir' = IF outcome = "stream_error"
              THEN dir \cup {segment_file_name(segment_number)}
              ELSE dir
    /\ console' = IF outcome = "status" THEN "Failed to download" ELSE "Error downloading"
    /\ sleep_log' = RetrySleep(sleep_log, attempt)
    /\ tries' = tries + 1
    /\ last_outcome' = outcome
    /\ IF MoreAttempts(attempt)
       THEN /\ attempt' = attempt + 1
            /\ pc' = "attempt"
            /\ exhausted' = exhausted
            /\ failed_tries' = failed_tries
       ELSE /\ attempt' = attempt
            /\ pc' = "after_retries"
            /\ exhausted' = exhausted \cup {segment_number}
            /\ failed_tries' = failed_tries @@ (segment_number :> tries')
    /\ UNCHANGED <<raw_filename, sanitized_filename,
                   base_url, retries, backoff, segment_number, failed_attempts,
                   ts_files, url, success, manifest, steps, mux_result,
                   output_exists,
                   downloaded,
                   requested>>

\* A fetcher that counts each failed segment twice.
IncrementTwice(failed) == failed + 2

\* main.py:53: the consecutive-failure counter after a segment failed
IncrementOnFailure(failed) == failed + 1

\* A fetcher that stops one failure late.
StopConditionLate(failed) == failed > MaxConsecutiveFailures

\* A loop that never stops on the failure counter.
StopConditionNever(failed) == FALSE

\* main.py:55: the stop condition of the fetch loop
StopCondition(failed) == failed >= MaxConsecutiveFailures

\* A loop that skips an index.
NextIndexSkips(n) == n + 2

\* main.py:60: the index of the next segment
NextIndex(n) == n + 1

\* main.py:52-60: after the retry loop of a segment that was downloaded
SegmentDone ==
    /\ pc = "after_retries"
    /\ success
    /\ segment_number' = NextIndex(segment_number)
    /\ pc' = "segment"
    /\ UNCHANGED <<raw_filename, sanitized_filename,
                   base_url, retries, backoff, failed_attempts, ts_files, url,
                   success, attempt, sleep_log, dir, manifest, steps, mux_result,
                   output_exists, console,
                   downloaded, exhausted,
                   requested, tries, failed_tries, last_outcome>>

\* main.py:52-60: after the retry loop of a segment whose attempts all failed
SegmentFailed ==
    /\ pc = "after_retries"
    /\ ~success
    /\ failed_attempts' = IncrementOnFailure(failed_attempts)
    /\ IF StopCondition(failed_attempts')
       THEN /\ console' = "Reached maximum consecutive failures. Stopping."
            /\ segment_number' = segment_number
            /\ pc' = "returned"
       ELSE /\ console' = "Failed to download after retries"
            /\ segment_number' = NextIndex(segment_number)
            /\ pc' = "segment"
    /\ UNCHANGED <<raw_filename, sanitized_filename,
                   base_url, retries, backoff, ts_files, url, success, attempt,
                   sleep_log, dir, manifest, steps, mux_result, output_exists,
                   downloaded, exhausted,
                   requested, tries, failed_tries, last_outcome>>

\* A driver that goes on to the manifest whatever the list holds.
HasFilesAlways(files) == TRUE

\* main.py:104: the truth value of the list
HasFiles(files) == files # <<>>

\* main.py:104-106 and 64-72: the manifest is written when ts_files is not empty
CreateFfmpegFileList ==
    /\ pc = "returned"
    /\ HasFiles(ts_files)
    /\ manifest' = manifest_text(ts_files)
    /\ dir' = dir \cup {list_file_name}
    /\ steps' = Append(steps, "manifest")
    /\ console' = "Created FFmpeg file list"
    /\ pc' = "combine"
    /\ UNCHANGED <<raw_filename, sanitized_filename,
                   base_url, retries, backoff, segment_number, failed_attempts,
                   ts_files, url, success, attempt, sleep_log, mux_result,
                   output_exists,
                   downloaded, exhausted,
                   requested, tries, failed_tries, last_outcome>>

\* main.py:104, 113-114: nothing was downloaded
NoFilesDownloaded ==
    /\ pc = "returned"
    /\ ~HasFiles(ts_files)
    /\ console' = "No .ts files were downloaded."
    /\ pc' = "done_empty"
    /\ UNCHANGED <<raw_filename, sanitized_filename,
                   base_url, retries, backoff, segment_number, failed_attempts,
                   ts_files, url, success, attempt, sleep_log, dir, manifest,
                   steps, mux_result, output_exists,
                   downloaded, exhausted,
                   requested, tries, failed_tries, last_outcome>>

\* main.py:109 and 76-77: the external command is started; the caller blocks
InvokeMuxer ==
    /\ pc = "combine"
    /\ steps' = Append(steps, "mux")
    /\ pc' = "muxing"
    /\ UNCHANGED <<raw_filename, sanitized_filename,
                   base_url, retries, backoff, segment_number, failed_attempts,
                   ts_files, url, success, attempt, sleep_log, dir, manifest,
                   mux_result, output_exists, console,
                   downloaded, exhausted,
                   requested, tries, failed_tries, last_outcome>>

\* A muxer invoker that checks the exit status and stops the run on a failure.
MuxerReturnsChecked(result) ==
    /\ pc = "muxing"
    /\ result \in MuxOutcomes
    /\ mux_result' = result
    /\ output_exists' = (result = "ok")
    /\ console' = IF result = "ok" THEN "Combined .ts files" ELSE "FFmpeg failed"
    /\ pc' = IF result = "ok" THEN "cleanup" ELSE "done"
    /\ UNCHANGED <<raw_filename, sanitized_filename,
                   base_url, retries, backoff, segment_number, failed_attempts,
                   ts_files, url, success, attempt, sleep_log, dir, manifest,
                   steps, downloaded, exhausted,
                   requested, tries, failed_tries, last_outcome>>

\* main.py:77-78: os.system returns, its result is dropped, success is printed
MuxerReturns(result) ==
    /\ pc = "muxing"
    /\ result \in MuxOutcomes
    /\ mux_result' = result
    /\ output_exists' = (result = "ok")
    /\ console' = "Combined .ts files"
    /\ pc' = "cleanup"
    /\ UNCHANGED <<raw_filename, sanitized_filename,
                   base_url, retries, backoff, segment_number, failed_attempts,
                   ts_files, url, success, attempt, sleep_log, dir, manifest,
                   steps,
                   downloaded, exhausted,
                   requested, tries, failed_tries, last_outcome>>

\* A cleanup that empties the folder.
RemainingNothing(entries) == {}

\* main.py:82-84: the entries cleanup leaves in the folder
RemainingAfterCleanup(entries) == {name \in entries : ~endswith(name, ts_extension)}

\* A driver that does not wait for the muxer: cleanup runs during the muxer call.
CleanupDuringMux ==
    /\ pc = "muxing"
    /\ Len(steps) = 3
    /\ dir' = RemainingAfterCleanup(dir)
    /\ steps' = Append(steps, "cleanup")
    /\ console' = "All .ts files have been deleted."
    /\ pc' = pc
    /\ UNCHANGED <<raw_filename, sanitized_filename,
                   base_url, retries, backoff, segment_number, failed_attempts,
                   ts_files, url, success, attempt, sleep_log, manifest,
                   mux_result, output_exists, downloaded, exhausted,
                   requested, tries, failed_tries, last_outcome>>

\* main.py:112 and 80-85
CleanupTsFiles ==
    /\ pc = "cleanup"
    /\ dir' = RemainingAfterCleanup(dir)
    /\ steps' = Append(steps, "cleanup")
    /\ console' = "All .ts files have been deleted."
    /\ pc' = "done"
    /\ UNCHANGED <<raw_filename, sanitized_filename,
                   base_url, retries, backoff, segment_number, failed_attempts,
                   ts_files, url, success, attempt, sleep_log, manifest,
                   mux_result, output_exists,
                   downloaded, exhausted,
                   requested, tries, failed_tries, last_outcome>>

Next ==
    \/ StartDownload
    \/ BeginSegment
    \/ AttemptSucceeds
    \/ \E outcome \in AttemptOutcomes : AttemptFails(outcome)
    \/ SegmentDone
    \/ SegmentFailed
    \/ CreateFfmpegFileList
    \/ NoFilesDownloaded
    \/ InvokeMuxer
    \/ \E result \in MuxOutcomes : MuxerReturns(result)
    \/ CleanupTsFiles

Spec == Init /\ [][Next]_vars

TypeOK ==
    /\ pc \in {"main", "segment", "attempt", "after_retries", "returned",
               "combine", "muxing", "cleanup", "done", "done_empty"}
    /\ segment_number \in Nat
    /\ failed_attempts \in Nat
    /\ success \in BOOLEAN
    /\ attempt \in 0..(retries - 1)
    /\ downloaded \subseteq 0..segment_number
    /\ exhausted \subseteq 0..segment_number
    /\ downloaded \cap exhausted = {}

----------------------------------------------------------------------------
(* Properties *)

\* The fetch loop has been left (main.py:57).
Exited == pc \in {"returned", "combine", "muxing", "cleanup", "done", "done_empty"}

\* The fetch loop is running.
InLoop == pc \in {"segment", "attempt", "after_retries"}

\* The number of exhausted indices immediately preceding index n.
TrailingExhausted(n) ==
    Cardinality({i \in 0..(n - 1) : \A j \in i..(n - 1) : j \in exhausted})

\* Five consecutive indices below n have each exhausted their retries.
FiveInARow(n) ==
    \E i \in 0..(n - MaxConsecutiveFailures) :
        \A j \in i..(i + MaxConsecutiveFailures - 1) : j \in exhausted

\* C1: the fetch loop is left if and only if five consecutive segment indices
\* have each exhausted their retries: when it has been left, the last five
\* indices requested are exhausted and nothing beyond them was requested; while
\* an index is being requested, no five consecutive earlier indices are exhausted,
\* and the loop is not left with fewer than five failures counted.
C1_ExitIffFiveConsecutive ==
    /\ Exited =>
         /\ segment_number >= MaxConsecutiveFailures - 1
         /\ \A j \in (segment_number - MaxConsecutiveFailures + 1)..segment_number :
                j \in exhausted
         /\ ~FiveInARow(segment_number)
         /\ failed_attempts = MaxConsecutiveFailures
    /\ pc \in {"segment", "attempt"} => ~FiveInARow(segment_number)
    /\ InLoop => failed_attempts < MaxConsecutiveFailures
    /\ pc = "after_retries" => ~FiveInARow(segment_number)

\* C1: successes at 0-2 and failures at 3-7 stop the loop right after index 7.
C1_Witness ==
    /\ pc = "returned"
    /\ downloaded = {0, 1, 2}
    /\ exhausted = {3, 4, 5, 6, 7}
    /\ segment_number = 7
    /\ Len(ts_files) = 3

\* C2: the consecutive-failure counter lies in 0..5 and equals the number of
\* immediately preceding consecutive failed indices: a success resets it to 0,
\* an exhausted segment adds exactly 1.
C2_CounterIsTrailingFailures ==
    /\ failed_attempts \in 0..MaxConsecutiveFailures
    /\ pc \in {"segment", "attempt"} =>
         failed_attempts = TrailingExhausted(segment_number)
    /\ pc = "after_retries" =>
         failed_attempts = IF success THEN 0 ELSE TrailingExhausted(segment_number)
    /\ Exited => failed_attempts = TrailingExhausted(segment_number + 1)

\* C2: failures at 3 and 5 with a success at 4; the counter is 1 after index 5.
C2_Witness ==
    /\ pc = "segment"
    /\ segment_number = 6
    /\ {3, 5} \subseteq exhausted
    /\ 4 \in downloaded
    /\ failed_attempts = 1

\* The number a string of decimal digits denotes.
RECURSIVE ParseDecimal(_)
ParseDecimal(s) ==
    IF s = <<>> THEN 0
    ELSE 10 * ParseDecimal(SubSeq(s, 1, Len(s) - 1))
         + (CHOOSE d \in 0..9 : Digits[d + 1] = s[Len(s)])

\* The segment index a saved path names: the digits between the last "/" and
\* the extension.
PathIndex(path) ==
    LET name == os_path_basename(path)
    IN  ParseDecimal(SubSeq(name, 1, Len(name) - Len(ts_extension)))

\* C3: the list holds exactly one path per index that had a successful attempt,
\* in strictly increasing index order, and no path for an index whose attempts
\* all failed.
C3_ListIsDownloadedInOrder ==
    LET positions == 1..Len(ts_files)
    IN  /\ Len(ts_files) = Cardinality(downloaded)
        /\ \A k \in positions :
             LET i == PathIndex(ts_files[k])
             IN  /\ i \in downloaded
                 /\ i \notin exhausted
                 /\ ts_files[k] = segment_file_path(temp_folder, i)
                 /\ k < Len(ts_files) => i < PathIndex(ts_files[k + 1])

\* C3: the loop has returned a list with gaps: index 1 failed between 0 and 2,
\* and the failed index left a partial file behind.
C3_Witness ==
    /\ pc = "returned"
    /\ {0, 2} \subseteq downloaded
    /\ 1 \in exhausted
    /\ segment_file_name(1) \in dir

\* C4: when no segment was downloaded, no manifest is written, the muxer is not
\* invoked and cleanup does not run: the run ends with the fetch as its only step.
C4_EmptyResultSkipsTheRest ==
    (Exited /\ downloaded = {}) =>
        /\ ts_files = <<>>
        /\ pc \in {"returned", "done_empty"}
        /\ steps = <<"fetch">>
        /\ manifest = <<>>
        /\ list_file_name \notin dir
        /\ mux_result = "none"
        /\ ~output_exists

\* C4: the run has ended with nothing downloaded, every index 0..4 exhausted.
C4_Witness ==
    /\ pc = "done_empty"
    /\ downloaded = {}
    /\ exhausted = 0..(MaxConsecutiveFailures - 1)
    /\ console = "No .ts files were downloaded."

\* C5: the downloaded segment files are never deleted when the muxer failed to
\* produce the combined output.
C5_SegmentsKeptWhenMuxFails ==
    (mux_result \in {"failed", "missing"} /\ ~output_exists) =>
        \A i \in downloaded : segment_file_name(i) \in dir

\* C6: the muxer's outcome does not influence control flow: whatever the
\* external command did, its return is followed by the success message and
\* by cleanup, and cleanup ends the run in "done".
C6_MuxOutcomeIgnored ==
    [][ /\ pc = "muxing" =>
             /\ pc' = "cleanup"
             /\ console' = "Combined .ts files"
             /\ mux_result' \in MuxOutcomes
             /\ steps' = steps
             /\ dir' = dir
        /\ pc = "cleanup" =>
             /\ pc' = "done"
             /\ steps' = <<"fetch", "manifest", "mux", "cleanup">>
             /\ console' = "All .ts files have been deleted."
             /\ mux_result' = mux_result ]_vars

\* C6: a run whose muxer was missing ended after cleanup, with no output.
C6_Witness ==
    /\ pc = "done"
    /\ mux_result = "missing"
    /\ ~output_exists
    /\ steps = <<"fetch", "manifest", "mux", "cleanup">>

\* The lines of a text, each ended by a newline.
RECURSIVE SplitLines(_)
SplitLines(text) ==
    IF text = <<>> THEN <<>>
    ELSE LET ends == {i \in 1..Len(text) : text[i] = "\n"}
         IN  IF ends = {} THEN <<text>>
             ELSE LET first == CHOOSE i \in ends : \A j \in ends : i <= j
                  IN  <<SubSeq(text, 1, first - 1)>>
                      \o SplitLines(SubSeq(text, first + 1, Len(text)))

ManifestPrefix == <<"f","i","l","e"," ","'">>

\* A line has the form file 'NAME'.
IsManifestLine(line) ==
    /\ Len(line) >= Len(ManifestPrefix) + 1
    /\ SubSeq(line, 1, Len(ManifestPrefix)) = ManifestPrefix
    /\ line[Len(line)] = "'"

\* The NAME of a line of the form file 'NAME'.
NameOfLine(line) == SubSeq(line, Len(ManifestPrefix) + 1, Len(line) - 1)

\* The names the manifest lists.
ManifestNames == {NameOfLine(SplitLines(manifest)[k]) : k \in 1..Len(SplitLines(manifest))}

StepOrder == <<"fetch", "manifest", "mux", "cleanup">>

\* C7: the steps occur in the order fetch, manifest, muxer, cleanup, each at
\* most once: the manifest is written after the fetch loop has ended, the muxer
\* is invoked with the manifest complete, cleanup starts after the muxer has
\* returned, and during the muxer call every file the manifest names exists.
C7_StepsInOrder ==
    /\ Len(steps) <= Len(StepOrder)
    /\ steps = SubSeq(StepOrder, 1, Len(steps))
    /\ Len(steps) >= 2 => Exited
    /\ Len(steps) >= 3 =>
         /\ list_file_name \in dir
         /\ Len(SplitLines(manifest)) = Len(ts_files)
    /\ Len(steps) = 4 => mux_result # "none"
    /\ pc = "muxing" =>
         /\ steps = SubSeq(StepOrder, 1, 3)
         /\ mux_result = "none"
         /\ ManifestNames \subseteq dir
         /\ Cardinality(ManifestNames) = Len(ts_files)

\* C7: a run of three downloaded segments went through all four steps.
C7_Witness ==
    /\ pc = "done"
    /\ steps = StepOrder
    /\ Len(ts_files) = 3
    /\ mux_result = "ok"

\* C8: once written, the manifest has exactly one line per element of the list,
\* in the order of the list, each line being file 'NAME' with NAME the base
\* name of the path: NAME holds no "/", and the path is NAME or ends in /NAME.
C8_ManifestLines ==
    Len(steps) >= 2 =>
        LET lines == SplitLines(manifest)
        IN  /\ Len(lines) = Len(ts_files)
            /\ manifest # <<>> => manifest[Len(manifest)] = "\n"
            /\ \A k \in 1..Len(lines) :
                 LET name == NameOfLine(lines[k])
                 IN  /\ IsManifestLine(lines[k])
                     /\ \A c \in 1..Len(name) : name[c] # "/"
                     /\ name # <<>>
                     /\ \/ ts_files[k] = name
                        \/ endswith(ts_files[k], <<"/">> \o name)

\* C8: the manifest of a list with a gap (0 and 2 downloaded, 1 failed) is written.
C8_Witness ==
    /\ pc = "combine"
    /\ downloaded = {0, 2}
    /\ Len(SplitLines(manifest)) = 2

EndsWithTs(name) ==
    /\ Len(name) >= 3
    /\ name[Len(name) - 2] = "."
    /\ name[Len(name) - 1] = "t"
    /\ name[Len(name)] = "s"

\* C9: cleanup removes every entry of the folder whose name ends with .ts and
\* leaves every other entry, the manifest included, where it is.
C9_CleanupFrame ==
    [][ pc = "cleanup" =>
          /\ \A name \in dir : EndsWithTs(name) => name \notin dir'
          /\ \A name \in dir : ~EndsWithTs(name) => name \in dir'
          /\ dir' \subseteq dir
          /\ list_file_name \in dir'
          /\ manifest' = manifest ]_vars

\* C9: cleanup has run on a folder that held downloaded segments, a .ts file
\* and a text file of an earlier run, and the manifest.
C9_Witness ==
    /\ pc = "done"
    /\ Len(ts_files) >= 2
    /\ dir = {list_file_name, <<"n","o","t","e","s",".","t","x","t">>}

\* The sleeps of a retry loop in which n attempts failed and were retried.
LinearBackoff(n) == [k \in 1..n |-> backoff * k]

\* C10: after failed attempt k < retries the fetcher sleeps backoff * k before
\* attempt k + 1; it sleeps neither after the last failed attempt nor after a
\* successful one.
C10_LinearBackoff ==
    /\ pc = "attempt" => sleep_log = LinearBackoff(attempt)
    /\ (pc = "after_retries" /\ success) => sleep_log = LinearBackoff(attempt)
    /\ (pc = "after_retries" /\ ~success) => sleep_log = LinearBackoff(retries - 1)

\* C10: with retries = 3 and backoff = 3 all attempts failed: sleeps of 3 and 6.
C10_Witness ==
    /\ pc = "after_retries"
    /\ ~success
    /\ retries = 3
    /\ backoff = 3
    /\ sleep_log = <<3, 6>>

\* The sum of the requests made for the exhausted indices.
RECURSIVE SumFailedTries(_)
SumFailedTries(indices) ==
    IF indices = {} THEN 0
    ELSE LET i == CHOOSE x \in indices : TRUE
         IN  failed_tries[i] + SumFailedTries(indices \ {i})

\* C11: when every attempt of the run failed, the loop ran exactly 5 full retry
\* cycles: exactly the indices 0..4 were requested, each with exactly retries
\* attempts, 5 * retries attempts in all, and the returned list is empty.
C11_FailingHostFiveCycles ==
    /\ (InLoop /\ downloaded = {} /\ ~success) =>
         /\ segment_number <= MaxConsecutiveFailures - 1
         /\ requested = [k \in 1..Len(requested) |-> k - 1]
         /\ \A i \in exhausted : failed_tries[i] = retries
    /\ (Exited /\ downloaded = {}) =>
         /\ requested = [k \in 1..MaxConsecutiveFailures |-> k - 1]
         /\ exhausted = 0..(MaxConsecutiveFailures - 1)
         /\ DOMAIN failed_tries = exhausted
         /\ \A i \in exhausted : failed_tries[i] = retries
         /\ SumFailedTries(exhausted) = MaxConsecutiveFailures * retries
         /\ tries = retries
         /\ ts_files = <<>>

\* C11: with retries = 3 every attempt failed, one of them while streaming the
\* body of segment 2; the fetcher has returned after 15 requests.
C11_Witness ==
    /\ pc = "returned"
    /\ downloaded = {}
    /\ retries = 3
    /\ SumFailedTries(exhausted) = 15
    /\ segment_file_name(2) \in dir
    /\ requested = <<0, 1, 2, 3, 4>>

\* C12: the index starts at 0 and advances by exactly 1 after every segment,
\* downloaded or not: the indices requested are 0, 1, 2, ... in this order,
\* none skipped and none requested again.
C12_IndicesInOrder ==
    /\ requested = [k \in 1..Len(requested) |-> k - 1]
    /\ pc = "main" => (segment_number = 0 /\ requested = <<>>)
    /\ pc = "segment" => Len(requested) = segment_number
    /\ pc \in {"attempt", "after_retries"} =>
         /\ Len(requested) = segment_number + 1
         /\ requested[Len(requested)] = segment_number
    /\ Exited => Len(requested) = segment_number + 1
    /\ downloaded \cup exhausted \subseteq 0..segment_number
    /\ pc = "segment" => downloaded \cup exhausted = 0..(segment_number - 1)

\* C12: index 3 is being requested after a failed index 1 and a downloaded index 2.
C12_Witness ==
    /\ pc = "attempt"
    /\ requested = <<0, 1, 2, 3>>
    /\ 1 \in exhausted
    /\ 2 \in downloaded
    /\ segment_number = 3

----------------------------------------------------------------------------
(* The rendering of the segment URL, on its own (main.py:22-24) *)

\* Base URLs that contain -000000.ts: bare, with a query string, with other
\* hyphens and zeros around it, and with the same substring again in the query
\* string or in the path.
UrlInputs ==
    { <<"h","/","v","-","0","0","0","0","0","0",".","t","s">>,
      <<"h","/","v","-","0","0","0","0","0","0",".","t","s","?","k","=","1">>,
      <<"h","/","a","-","0","/","v","-","0","0","0","0","0","0",".","t","s","?","t","=","-","0","0">>,
      <<"-","0","0","0","0","0","0",".","t","s">>,
      <<"h","/","v","-","0","0","0","0","0","0",".","t","s","?","s","=","v","-","0","0","0","0","0","0",".","t","s">>,
      <<"h","/","d","-","0","0","0","0","0","0",".","t","s","/","v","-","0","0","0","0","0","0",".","t","s">> }

\* Segment indices: one digit, several digits, the last of six digits and beyond.
IndexInputs == {0, 1, 9, 10, 42, 123456, 999999, 1000000, 1234567}

\* The state before the URL of one segment is rendered.
InitUrl ==
    /\ pc = "render"
    /\ base_url \in UrlInputs
    /\ segment_number \in IndexInputs
    /\ retries = DefaultRetries
    /\ backoff = DefaultBackoff
    /\ failed_attempts = 0
    /\ ts_files = <<>>
    /\ url = <<>>
    /\ success = FALSE
    /\ attempt = 0
    /\ sleep_log = <<>>
    /\ dir = {}
    /\ manifest = <<>>
    /\ steps = <<>>
    /\ mux_result = "none"
    /\ output_exists = FALSE
    /\ console = "prompt"
    /\ downloaded = {}
    /\ exhausted = {}
    /\ requested = <<>>
    /\ tries = 0
    /\ failed_tries = [i \in {} |-> 0]
    /\ last_outcome = "none"
    /\ raw_filename = <<>>
    /\ sanitized_filename = <<>>

\* main.py:22-24
RenderUrl ==
    /\ pc = "render"
    /\ url' = segment_url(base_url, segment_number)
    /\ pc' = "rendered"
    /\ UNCHANGED <<raw_filename, sanitized_filename,
                   base_url, retries, backoff, segment_number, failed_attempts,
                   ts_files, success, attempt, sleep_log, dir, manifest, steps,
                   mux_result, output_exists, console, downloaded, exhausted,
                   requested, tries, failed_tries, last_outcome>>

NextUrl == RenderUrl

SpecUrl == InitUrl /\ [][NextUrl]_vars

\* The number of decimal places of the zero-padded form of i: six, or as many
\* as i has when it has more.
PaddedWidth(i) == CHOOSE w \in SegmentWidth..(SegmentWidth + 4) :
                     /\ i < 10 ^ w
                     /\ w > SegmentWidth => i >= 10 ^ (w - 1)

\* The zero-padded decimal form of i: its digit at each place.
PaddedDigits(i) ==
    [k \in 1..PaddedWidth(i) |->
        Digits[((i \div (10 ^ (PaddedWidth(i) - k))) % 10) + 1]]

\* C13: the rendered URL is the base URL with the substring -000000.ts replaced
\* by the zero-padded decimal form of the index, and every other character,
\* the query string included, unchanged.
C13_OnlyPlaceholderReplaced ==
    pc = "rendered" =>
        \E p \in 1..(Len(base_url) - Len(segment_placeholder) + 1) :
            /\ SubSeq(base_url, p, p + Len(segment_placeholder) - 1) = segment_placeholder
            /\ url = SubSeq(base_url, 1, p - 1)
                     \o <<"-">> \o PaddedDigits(segment_number) \o ts_extension
                     \o SubSeq(base_url, p + Len(segment_placeholder), Len(base_url))

----------------------------------------------------------------------------
(* Properties of the attempts of one segment *)

FailingOutcomes == {"status", "error", "stream_error"}

\* C14: for each index the fetcher makes between 1 and retries attempts and none
\* after a successful one; an attempt fails on a status other than 200 and on a
\* transport exception, also one raised while the body is streamed; the segment
\* is a whole-segment failure exactly when retries attempts were made and all
\* of them failed.
C14_AttemptsPerSegment ==
    /\ pc = "attempt" =>
         /\ tries = attempt
         /\ tries < retries
         /\ ~success
         /\ tries > 0 => last_outcome \in FailingOutcomes
    /\ pc = "after_retries" =>
         /\ tries \in 1..retries
         /\ success <=> last_outcome = "ok"
         /\ success <=> segment_number \in downloaded
         /\ ~success <=> segment_number \in exhausted
         /\ ~success => (tries = retries /\ last_outcome \in FailingOutcomes)
    /\ DOMAIN failed_tries = exhausted
    /\ \A i \in exhausted : failed_tries[i] = retries
    /\ downloaded \cap exhausted = {}

\* C14: all three attempts of a segment failed, the last one while the body was
\* streamed to disk.
C14_Witness ==
    /\ pc = "after_retries"
    /\ ~success
    /\ retries = 3
    /\ tries = 3
    /\ last_outcome = "stream_error"
    /\ segment_number \in exhausted

\* The entries of the folder that the fetcher created.
FetcherCreated == (dir \ PreExisting) \ {list_file_name}

\* C15: once the fetch loop has ended, and until cleanup, every segment file
\* the fetcher created is named by a path of the returned list; when nothing
\* was downloaded the fetcher has left no file behind.
C15_FilesOnlyOfDownloads ==
    /\ pc \in {"returned", "combine", "muxing", "cleanup", "done_empty"} =>
         \A name \in FetcherCreated :
             \E k \in 1..Len(ts_files) : ts_files[k] = os_path_join(temp_folder, name)
    /\ pc = "done_empty" => FetcherCreated = {}

----------------------------------------------------------------------------
(* Termination *)

\* A step of the program itself: every call that main.py makes in its own
\* process (an HTTP attempt bounded by timeout=10, a sleep, a file operation)
\* returns.  The external muxer started by os.system (main.py:77) is not among
\* them: it has no timeout.
ProgramStep ==
    \/ StartDownload
    \/ BeginSegment
    \/ AttemptSucceeds
    \/ \E outcome \in AttemptOutcomes : AttemptFails(outcome)
    \/ SegmentDone
    \/ SegmentFailed
    \/ CreateFfmpegFileList
    \/ NoFilesDownloaded
    \/ InvokeMuxer
    \/ CleanupTsFiles

\* The external muxer process exits.
MuxerExits == \E result \in MuxOutcomes : MuxerReturns(result)

\* The runs with the default retries and backoff of main.py:9 and an empty folder.
InitDefault ==
    /\ Init
    /\ retries = DefaultRetries
    /\ backoff = DefaultBackoff
    /\ dir = {}

\* Every HTTP attempt and every sleep returns; the host answers 200 for no
\* index from MaxSegments onward.
FairSpec == InitDefault /\ [][Next]_vars /\ WF_vars(ProgramStep)

\* The run has ended (main.py:112, main.py:114).
Finished == pc \in {"done", "done_empty"}

\* C16 as stated: with every HTTP attempt and every sleep returning and every
\* attempt failing from some index onward, the run eventually reaches DONE or
\* DONE_EMPTY.
C16_RunEventuallyEnds == <>Finished

\* C16, amended: under the same assumptions download_ts_segments eventually
\* returns, having requested no index more than four past the last one the
\* host can serve, and the run reaches DONE_EMPTY or the muxer invocation;
\* it reaches DONE if, in addition, the external muxer process exits.
C16_FetchLoopTerminates ==
    /\ [](segment_number < MaxSegments + MaxConsecutiveFailures)
    /\ <>Exited
    /\ <>(pc \in {"muxing", "done_empty"})
    /\ WF_vars(MuxerExits) => <>Finished

\* C16: a run that downloaded segments, then met five failing indices in a
\* row, has handed over to the muxer.
C16_Witness ==
    /\ pc = "muxing"
    /\ downloaded # {}
    /\ TrailingExhausted(segment_number + 1) = MaxConsecutiveFailures
    /\ failed_attempts = MaxConsecutiveFailures

----------------------------------------------------------------------------
(* sanitize_filename *)

\* The longest name built from FilenameAlphabet.
MaxNameLen == 3

\* Characters of each kind: an ASCII letter, an ASCII digit, a letter outside
\* ASCII, the kept punctuation, a space, a tab, and two characters that are
\* dropped.
FilenameAlphabet == {"a", "7", "U+00E9", ".", " ", "\t", "/", "?"}

RECURSIVE NamesOfLen(_)
NamesOfLen(n) ==
    IF n = 0 THEN {<<>>}
    ELSE {Append(s, c) : s \in NamesOfLen(n - 1), c \in FilenameAlphabet}

\* main.py:33, the names the fetcher passes
FetcherNames == {segment_str(i) \o ts_extension : i \in IndexInputs}

\* The arguments of sanitize_filename.
FilenameInputs ==
    FetcherNames \cup UNION {NamesOfLen(n) : n \in 0..MaxNameLen}

\* The state before sanitize_filename is called on one name.
InitSanitize ==
    /\ pc = "sanitize"
    /\ raw_filename \in FilenameInputs
    /\ sanitized_filename = <<>>
    /\ base_url = <<>>
    /\ segment_number = 0
    /\ retries = DefaultRetries
    /\ backoff = DefaultBackoff
    /\ failed_attempts = 0
    /\ ts_files = <<>>
    /\ url = <<>>
    /\ success = FALSE
    /\ attempt = 0
    /\ sleep_log = <<>>
    /\ dir = {}
    /\ manifest = <<>>
    /\ steps = <<>>
    /\ mux_result = "none"
    /\ output_exists = FALSE
    /\ console = "prompt"
    /\ downloaded = {}
    /\ exhausted = {}
    /\ requested = <<>>
    /\ tries = 0
    /\ failed_tries = [i \in {} |-> 0]
    /\ last_outcome = "none"

\* main.py:5-7
Sanitize ==
    /\ pc = "sanitize"
    /\ sanitized_filename' = sanitize_filename(raw_filename)
    /\ pc' = "sanitized"
    /\ UNCHANGED <<raw_filename, base_url, retries, backoff, segment_number,
                   failed_attempts, ts_files, url, success, attempt, sleep_log,
                   dir, manifest, steps, mux_result, output_exists, console,
                   downloaded, exhausted, requested, tries, failed_tries,
                   last_outcome>>

NextSanitize == Sanitize

SpecSanitize == InitSanitize /\ [][NextSanitize]_vars

\* The characters the specification allows in a sanitized name.
AsciiAllowed == AsciiLetters \cup AsciiDigits \cup {" ", ".", "_", "-"}

\* The characters sanitize_filename lets through: every character for which
\* str.isalnum() is true, ASCII or not, and the four punctuation characters.
UnicodeAllowed == AlnumChars \cup {" ", ".", "_", "-"}

\* s carries no whitespace at either end.
IsStripped(s) ==
    s # <<>> => (Head(s) \notin Whitespace /\ s[Len(s)] \notin Whitespace)

\* The characters of s that belong to allowed, in order.
Restrict(s, allowed) ==
    LET keep(c) == c \in allowed IN SelectSeq(s, keep)

\* The names under which the fetcher saves distinct indices are distinct.
DistinctIndicesDistinctNames ==
    \A i, j \in IndexInputs :
        i # j => segment_file_name(i) # segment_file_name(j)

\* C17 as stated: the sanitized name has only characters of
\* {A-Z, a-z, 0-9, space, '.', '_', '-'} and no whitespace at its ends; a name
\* the fetcher passes (zero-padded index and .ts) comes back unchanged, and
\* distinct indices get distinct file names.
C17_AsciiOnly ==
    pc = "sanitized" =>
        /\ \A k \in 1..Len(sanitized_filename) : sanitized_filename[k] \in AsciiAllowed
        /\ IsStripped(sanitized_filename)
        /\ raw_filename \in FetcherNames => sanitized_filename = raw_filename
        /\ DistinctIndicesDistinctNames

\* C17, amended: the sanitized name consists of the characters of the argument
\* that are alphanumeric in Unicode (str.isalnum) or one of space, '.', '_',
\* '-', in their order, less the spaces at both ends; a name the fetcher
\* passes comes back unchanged, and distinct indices get distinct file names.
C17_SanitizedName ==
    pc = "sanitized" =>
        /\ \A k \in 1..Len(sanitized_filename) : sanitized_filename[k] \in UnicodeAllowed
        /\ IsStripped(sanitized_filename)
        /\ \E lead, trail \in 0..Len(raw_filename) :
             Restrict(raw_filename, UnicodeAllowed) =
                 [k \in 1..lead |-> " "] \o sanitized_filename \o [k \in 1..trail |-> " "]
        /\ raw_filename \in FetcherNames => sanitized_filename = raw_filename
        /\ DistinctIndicesDistinctNames

\* C17: a name with a leading space, a letter outside ASCII and a dropped
\* character has been sanitized to the letter alone.
C17_Witness ==
    /\ pc = "sanitized"
    /\ raw_filename = <<" ", "U+00E9", "/">>
    /\ sanitized_filename = <<"U+00E9">>

====
